---- MODULE Spec2Model ----
(***************************************************************************)
(* The JSON-file record store of tws-toolbelt: createDatabase (one         *)
(* collection, src/src/database.ts) and createMultiTableDatabase (named    *)
(* tables plus _metadata, src/unnamed/part_002), on top of the lowdb       *)
(* document adapter (db.update = run the mutator on db.data, then write).  *)
(*                                                                         *)
(* A step is one synchronous stretch of JavaScript: issuing an operation   *)
(* (everything up to its first await: the table check, the mutator and the *)
(* request to write), the completion or failure of the file write in       *)
(* progress, or the continuation of one operation after its await.         *)
(*                                                                         *)
(* Spec is the store under ordinary table names, SpecReserved the          *)
(* multi-table store when the reserved key _metadata is handed in as a     *)
(* table name, SpecUtil the calls of chunk (src/src/array.ts), truncate    *)
(* and maskString (src/unnamed/part_001).                                  *)
(***************************************************************************)
EXTENDS Integers, Sequences, FiniteSets, TLC

\* ------------------------------------------------------------------ bounds
MaxOps == 2          \* mutations issued on one store in one run
MaxLen == 3          \* elements of an array, characters of a string
MaxSize == 4         \* the numbers handed to chunk, truncate and maskString

\* ------------------------------------------------------------ input domains
Ids == {1, 2}
Vals == {"A", "B"}
\* Records handed to add: two that share an id, one with another id.
Records == {r \in [id : Ids, name : Vals] : r.id = 1 \/ r.name = "A"}
\* Partial<T> handed to update: each field is either supplied or left out
\* (an unsupplied field carries a placeholder that Overlay never reads).
Partials == {[hasId |-> FALSE, id |-> 1, hasName |-> FALSE, name |-> "A"],
             [hasId |-> FALSE, id |-> 1, hasName |-> TRUE, name |-> "B"],
             [hasId |-> TRUE, id |-> 2, hasName |-> FALSE, name |-> "A"]}
\* Table names handed to table(), createTable() and dropTable(). "toString" is a
\* member of Object.prototype, so db.data["toString"] is a function even when
\* the document has no such key.
Names == {"users", "toString"}
ProtoNames == {"toString"}
MetaKey == "_metadata"
\* The collection bound by createDatabase(filename, collectionName).
Coll == "users"
\* initialData arguments of createTable (omitted = []).
InitialData == {<<>>, <<[id |-> 1, name |-> "A"]>>}
\* The records a store starts with: the array bound to the collection in
\* defaultData (createDatabase) or to "users" in initialTables
\* (createMultiTableDatabase).
InitialRows == {<<>>, <<[id |-> 1, name |-> "A"]>>,
                <<[id |-> 1, name |-> "A"], [id |-> 1, name |-> "B"]>>}
\* Whether initialTables has the key "users" at all.
InitialTables == {<<>>, <<"users">>}

Range(s) == {s[k] : k \in DOMAIN s}

\* -------------------------------------------------------------- documents
\* Every name a caller can hand to table(), createTable() and dropTable():
\* nothing in the code sets the reserved key apart from the other names.
Keys == Names \cup {MetaKey}

\* db.data: the own keys in insertion order (Object.keys), the array bound to
\* each key (meaningful only while the key is an own key and bound to an
\* array), _metadata.tables (meaningful only while _metadata is an own key)
\* and whether _metadata is bound to an array (marr) instead of the object
\* { created, version, tables } it is bound to at creation.
EmptyRows == [n \in Keys |-> <<>>]
\* Arrays are objects: one array can be bound to several keys and be held
\* by the caller as well. `shared` tells which holders hold one and the same
\* array object: a set of groups of two or more holders; a holder in no group
\* holds an array of its own. The holders are the keys of the document, the
\* array the caller got from getAll and the arrays of the object the caller
\* gave the factory.
EmptyDoc ==
  [keys |-> <<>>, rows |-> EmptyRows, tables |-> <<>>, marr |-> FALSE, shared |-> {}]

InData(k) == [at |-> "data", key |-> k]
InGiven(k) == [at |-> "given", key |-> k]
InView == [at |-> "view", key |-> "users"]

\* The holders of the array object that h holds.
Group(d, h) ==
  IF \E s \in d.shared : h \in s THEN CHOOSE s \in d.shared : h \in s ELSE {h}

\* h holds its array no longer.
Without(sh, h) == {t \in {s \ {h} : s \in sh} : Cardinality(t) > 1}

\* h is made to hold the array object that g holds.
Joined(sh, h, g) ==
  IF g = h THEN sh
  ELSE LET rest == Without(sh, h)
           grp == IF \E s \in rest : g \in s THEN CHOOSE s \in rest : g \in s ELSE {g}
       IN (rest \ {grp}) \cup {grp \cup {h}}

\* The array bound to key n is changed in place (push, splice, assignment
\* to an index) and holds rows: so does every key bound to the same array.
InPlace(d, n, rows) ==
  [d EXCEPT !.rows = [k \in Keys |->
                       IF InData(k) \in Group(d, InData(n)) THEN rows ELSE d.rows[k]]]

Own(d, n) == n \in Range(d.keys)

\* The value of the expression db.data[n]: an own key is read from the
\* document, any other name is looked up on Object.prototype.
Lookup(d, n) ==
  IF Own(d, n) THEN (IF n = MetaKey /\ ~d.marr THEN "object" ELSE "array")
  ELSE IF n \in ProtoNames THEN "function"
  ELSE "undefined"

\* Object.keys(data).filter((key) => key !== '_metadata')
TableKeys(d) == SelectSeq(d.keys, LAMBDA k : k # MetaKey)

\* data[n] = value, value a new array: an existing key keeps its place, a
\* new key goes last. Bound to _metadata, the array takes the place of the
\* metadata object, and a new array has no property `tables`.
SetKey(d, n, value) ==
  [d EXCEPT !.keys = IF Own(d, n) THEN @ ELSE Append(@, n),
            !.rows[n] = value,
            !.shared = Without(@, InData(n)),
            !.marr = IF n = MetaKey THEN TRUE ELSE @,
            !.tables = IF n = MetaKey THEN <<>> ELSE @]

\* delete data[n]
DeleteKey(d, n) ==
  [d EXCEPT !.keys = SelectSeq(@, LAMBDA k : k # n),
            !.rows[n] = <<>>,
            !.shared = Without(@, InData(n)),
            !.marr = IF n = MetaKey THEN FALSE ELSE @,
            !.tables = IF n = MetaKey THEN <<>> ELSE @]

\* if (data._metadata) data._metadata.tables = Object.keys(data).filter(...)
\* (an array is truthy too, and takes the property like any object)
RefreshMeta(d) ==
  IF Own(d, MetaKey) THEN [d EXCEPT !.tables = TableKeys(d)] ELSE d

\* JSON.stringify(db.data) as handed to the file writer: the members of the
\* top-level object in key order. An array is written as its elements (a
\* property such as `tables` set on an array is not written), the metadata
\* object as its fields.
Member(d, k) ==
  IF Lookup(d, k) = "object"
  THEN [key |-> k, arr |-> FALSE, rows |-> <<>>, tables |-> d.tables]
  ELSE [key |-> k, arr |-> TRUE, rows |-> d.rows[k], tables |-> <<>>]

Serialize(d) == [j \in 1..Len(d.keys) |-> Member(d, d.keys[j])]

\* JSON.parse of a file written by Serialize: the document it describes.
MemberOf(text, k) == text[CHOOSE j \in DOMAIN text : text[j].key = k]

Parse(text) ==
  LET has(k) == \E j \in DOMAIN text : text[j].key = k
  IN [keys |-> [j \in 1..Len(text) |-> text[j].key],
      rows |-> [k \in Keys |-> IF has(k) /\ MemberOf(text, k).arr
                                  THEN MemberOf(text, k).rows ELSE <<>>],
      tables |-> IF has(MetaKey) THEN MemberOf(text, MetaKey).tables ELSE <<>>,
      marr |-> has(MetaKey) /\ MemberOf(text, MetaKey).arr,
      shared |-> {}]

\* { [collectionName]: [], ...defaultData } with defaultData = { users: rows }
\* (rows = <<>> also stands for no defaultData at all)
SingleDefault(rows) ==
  [EmptyDoc EXCEPT !.keys = <<Coll>>, !.rows[Coll] = rows]

\* { ...initialTables, _metadata: { created, version, tables: Object.keys(initialTables) } }
\* with initialTables = {} or { users: rows }
MultiDefault(init, rows) ==
  [EmptyDoc EXCEPT !.keys = Append(init, MetaKey),
                   !.rows[Coll] = IF init = <<>> THEN <<>> ELSE rows,
                   !.tables = init]

\* ----------------------------------------------------------------- records
\* rows.findIndex((item) => item.id === id), 1-based; 0 stands for -1.
\* Mutant of FindIndex: rows.findLastIndex(...), the last record with the id.
FindIndexLast(rows, i) ==
  IF \E k \in DOMAIN rows : rows[k].id = i
  THEN CHOOSE k \in DOMAIN rows :
         /\ rows[k].id = i
         /\ \A j \in DOMAIN rows : rows[j].id = i => k >= j
  ELSE 0

FindIndex(rows, i) ==
  IF \E k \in DOMAIN rows : rows[k].id = i
  THEN CHOOSE k \in DOMAIN rows :
         /\ rows[k].id = i
         /\ \A j \in DOMAIN rows : rows[j].id = i => k <= j
  ELSE 0

\* rows.find((item) => item.id === id): <<>> stands for undefined.
GetById(rows, i) ==
  IF FindIndex(rows, i) = 0 THEN <<>> ELSE <<rows[FindIndex(rows, i)]>>

\* rows.filter((item) => item.id === id)
FilterById(rows, i) == SelectSeq(rows, LAMBDA r : r.id = i)

\* { ...record, ...updates }
\* Mutant of Overlay: the id of updates is taken even where it was left out.
OverlayIdAlways(r, p) ==
  [id |-> p.id, name |-> IF p.hasName THEN p.name ELSE r.name]

Overlay(r, p) ==
  [id |-> IF p.hasId THEN p.id ELSE r.id,
   name |-> IF p.hasName THEN p.name ELSE r.name]

\* rows.splice(k, 1) applied to rows: what stays.
\* Mutant of Splice: rows.splice(k), which removes everything from k on.
SpliceRest(rows, k) == SubSeq(rows, 1, k - 1)

Splice(rows, k) == SubSeq(rows, 1, k - 1) \o SubSeq(rows, k + 1, Len(rows))

\* ---------------------------------------------------------------- mutators
\* The callbacks handed to db.update, as functions of the document. Each is
\* called only where it does not throw (see Throws).
\* Mutant of AddMut: rows.concat(item), whose result is thrown away.
AddMutConcat(d, n, item) == d

AddMut(d, n, item) == InPlace(d, n, Append(d.rows[n], item))

\* Mutant of UpdateMut: an unknown id inserts the supplied fields (upsert).
UpdateMutUpsert(d, n, i, p) ==
  IF FindIndex(d.rows[n], i) = 0
  THEN InPlace(d, n, Append(d.rows[n], Overlay([id |-> i, name |-> "A"], p)))
  ELSE InPlace(d, n, [d.rows[n] EXCEPT ![FindIndex(d.rows[n], i)] = Overlay(@, p)])

UpdateMut(d, n, i, p) ==
  IF FindIndex(d.rows[n], i) = 0 THEN d
  ELSE InPlace(d, n, [d.rows[n] EXCEPT ![FindIndex(d.rows[n], i)] = Overlay(@, p)])

\* Mutant of RemoveMut: rows.slice(index, 1), which removes nothing.
RemoveMutSlice(d, n, i) == d

RemoveMut(d, n, i) ==
  IF FindIndex(d.rows[n], i) = 0 THEN d
  ELSE InPlace(d, n, Splice(d.rows[n], FindIndex(d.rows[n], i)))

\* let removed = undefined; ... removed = rows.splice(index, 1)[0]
Removed(d, n, i) == GetById(d.rows[n], i)

ClearMut(d, n) == SetKey(d, n, <<>>)

\* data[n] = a, a the caller's array of records init: a new array (held =
\* <<>>), or the array object that the holder held[1] holds.
BindKey(d, n, init, held) ==
  IF held = <<>> THEN SetKey(d, n, init)
  ELSE [SetKey(d, n, init) EXCEPT !.shared = Joined(d.shared, InData(n), held[1])]

\* createTable(n, initialData): data[n] = initialData, the array itself.
\* Mutant of CreateTableMut: a table that exists keeps its records.
CreateTableMutKeep(d, n, init, held) ==
  RefreshMeta(IF Own(d, n) THEN d ELSE BindKey(d, n, init, held))

CreateTableMut(d, n, init, held) == RefreshMeta(BindKey(d, n, init, held))

\* Mutant of DropTableMut: data[n] = [] in place of delete data[n].
DropTableMutEmpty(d, n) == RefreshMeta(SetKey(d, n, <<>>))

DropTableMut(d, n) == RefreshMeta(DeleteKey(d, n))

\* The updateData callback (data) => { data[n] = [] }.
CallbackMut(d, n) == SetKey(d, n, <<>>)

\* The callbacks handed to createDatabase's updateData: the one above, and
\* (data) => { delete data[collectionName] }.
Callbacks == {"assign", "delete"}

CallbackOf(d, n, cb) == IF cb = "delete" THEN DeleteKey(d, n) ELSE CallbackMut(d, n)

\* data[n].push / data[n].findIndex raise a TypeError unless data[n] is an array.
Throws(d, n) == Lookup(d, n) # "array"

\* ------------------------------------------------------------------- reads
\* The synchronous operations of a table handle, as functions of db.data.
ReadKinds == {"getAll", "getById", "find", "findOne", "count", "query", "exists"}

\* ensureTable(tableName): throws unless db.data[tableName] is truthy.
EnsureTable(d, n) == Lookup(d, n) # "undefined"

\* How a read on table(n) ends: "ok", the Error of ensureTable ("absent") or
\* the TypeError of calling an array method on a value that has none.
ReadStatus(d, n, kind) ==
  IF kind = "exists" THEN "ok"
  ELSE IF ~EnsureTable(d, n) THEN "absent"
  ELSE IF Throws(d, n) /\ kind \in {"getById", "find", "findOne"}
       THEN "typeerror"
  ELSE "ok"

\* How issuing add, update, remove or clear on table(n) goes: ensureTable
\* throws ("absent"), the mutator throws inside db.update before anything is
\* written ("typeerror"; clear calls no array method), or the mutator runs.
MutKinds == {"add", "update", "remove", "clear"}

IssueStatus(d, n, kind) ==
  IF ~EnsureTable(d, n) THEN "absent"
  ELSE IF kind # "clear" /\ Throws(d, n) THEN "typeerror"
  ELSE "accepted"

\* count(): db.data[n].length, as <<length>>. The length of the function
\* Object.prototype.toString is 0; the metadata object has no property
\* length, and <<>> stands for undefined.
Count(d, n) ==
  IF Lookup(d, n) = "array" THEN <<Len(d.rows[n])>>
  ELSE IF Lookup(d, n) = "function" THEN <<0>>
  ELSE <<>>

\* exists(): !!db.data[n]
Exists(d, n) == Lookup(d, n) # "undefined"

\* listTables()
\* Mutant of ListTables: the list kept in _metadata.tables is returned.
ListTablesFromMeta(d) == d.tables

ListTables(d) == TableKeys(d)

\* The reads of createDatabase, which has no table check: getAll returns
\* db.data[collectionName] whatever it is and query hands it to the callback;
\* the others call .find, .filter or .length on it.
SReadStatus(d, kind) ==
  IF kind \in {"getById", "find", "findOne", "count"} /\ Throws(d, Coll)
  THEN "typeerror"
  ELSE "ok"

\* Issuing add, update, remove or clear on createDatabase's store.
SIssueStatus(d, kind) ==
  IF kind # "clear" /\ Throws(d, Coll) THEN "typeerror" ELSE "accepted"

\* ---------------------------------------------- array and string utilities
\* Arrays, and strings as sequences of characters.
Elems == {"a", "b"}
Arrays == UNION {[1..n -> Elems] : n \in 0..MaxLen}
Suffixes == {<<>>, <<".">>, <<".", ".", ".">>}
MaskChars == {"*"}

Min(a, b) == IF a < b THEN a ELSE b
Max(a, b) == IF a > b THEN a ELSE b

\* Array.prototype.slice(start, end) and String.prototype.slice(start, end):
\* a negative index counts from the end, every index is clamped to 0..length.
JsIndex(len, k) == IF k < 0 THEN Max(len + k, 0) ELSE Min(k, len)

JsSlice(s, start, end) ==
  SubSeq(s, JsIndex(Len(s), start) + 1, JsIndex(Len(s), end))

\* maskChar.repeat(count), maskChar one character
Repeat(c, count) == [k \in 1..count |-> c]

\* chunk: the slice pushed by one pass of the loop, arr.slice(i, i + size)
\* Mutant of ChunkSlice: arr.slice(i, size).
ChunkSliceTo(arr, i, size) == JsSlice(arr, i, size)

ChunkSlice(arr, i, size) == JsSlice(arr, i, i + size)

\* truncate(str, length, suffix)
Truncate(str, length, suffix) ==
  IF Len(str) <= length THEN str
  ELSE JsSlice(str, 0, length - Len(suffix)) \o suffix

\* maskString(str, visibleStart, visibleEnd, maskChar); str.slice(-visibleEnd)
\* is str.slice(-visibleEnd, str.length), and -0 is 0.
MaskString(str, visibleStart, visibleEnd, maskChar) ==
  IF Len(str) <= visibleStart + visibleEnd THEN str
  ELSE JsSlice(str, 0, visibleStart)
         \o Repeat(maskChar, Len(str) - visibleStart - visibleEnd)
         \o JsSlice(str, 0 - visibleEnd, Len(str))

\* A call of a utility: its arguments, where it stands, what it returned.
NoCall ==
  [fn |-> "none", arr |-> <<>>, size |-> 1,
   str |-> <<>>, length |-> 0, suffix |-> <<>>,
   visibleStart |-> 0, visibleEnd |-> 0, maskChar |-> "*",
   pc |-> "done",      \* "loop": in chunk's for loop; "call": called; "done"
   i |-> 0,            \* the loop variable of chunk; kept no lower than
                       \* -arr.length, from where on every slice is empty
                       \* and i < arr.length stays true
   chunks |-> <<>>,    \* the local array of chunk, its first MaxPasses elements
   over |-> 0,         \* the number of further elements pushed, modulo 2
   result |-> <<>>]

\* ------------------------------------------------------------------- state
VARIABLES
  mode,      \* "single": createDatabase; "multi": createMultiTableDatabase
  doc,       \* db.data, the in-memory document
  file,      \* the JSON file: whether it exists, its content, the number of
             \* the mutation whose snapshot it holds, and whether the open
             \* found it
  cur,       \* the file write in progress
  nxt,       \* the snapshot waiting for the write in progress to end
  pend,      \* operations suspended at `await db.update(...)`, in issuance order
  seq,       \* mutations issued so far
  hist,      \* hist[k]: the document right after the k-th mutation
  resolved,  \* the operation that settled in the last step (kind "none": none)
  net,       \* add calls minus remove calls that found a record
  clean,     \* only add and remove were called so far, and no write failed
  util,      \* the call of an array or string utility under way
  kept       \* what the caller holds on to: a table handle, an array from getAll

vars == <<mode, doc, file, cur, nxt, pend, seq, hist, resolved, net, clean, util, kept>>

\* An operation: its arguments, and what it saw when it was issued.
NoOp ==
  [kind |-> "none", tab |-> Coll, id |-> 1, item |-> [id |-> 1, name |-> "A"],
   p |-> [hasId |-> FALSE, id |-> 1, hasName |-> FALSE, name |-> "A"],
   init |-> <<>>,
   seq |-> 0,          \* its number among the mutations
   after |-> 0,        \* mutations issued after it, before it settled
   w |-> "none",       \* the write it waits on: "cur", "nxt"; "done", "failed"
   own |-> FALSE,      \* its table was a key of the document when issued
   pre |-> <<>>,       \* the first record with its id, before its mutator ran
   serial |-> <<>>,    \* its return value if it ran to completion at once
   removed |-> <<>>,   \* the closure variable `removed` of remove
   edit |-> FALSE,     \* its mutator changed the document
   status |-> "none",  \* "ok", "absent", "typeerror", "ioerror"
   result |-> <<>>]    \* the value its promise resolved with (<<>>: undefined)

IdleWrite == [busy |-> FALSE, data |-> <<>>, seq |-> 0]
NoNext == [has |-> FALSE, data |-> <<>>, seq |-> 0]

\* ----------------------------------------------------------------- adapter
\* Low.update(fn): fn(this.data), then adapter.write(JSON.stringify(data)).
\* The writer runs one file write at a time; a request made meanwhile
\* replaces the waiting snapshot, and all waiting callers share its write.
\* Mutant of WriteRequest: a request made during a write overtakes it.
WriteRequestOvertake(c, x, data, s) ==
  IF c.busy
  THEN [cur |-> [busy |-> TRUE, data |-> data, seq |-> s],
        nxt |-> [has |-> TRUE, data |-> c.data, seq |-> c.seq]]
  ELSE [cur |-> [busy |-> TRUE, data |-> data, seq |-> s], nxt |-> x]

WriteRequest(c, x, data, s) ==
  IF c.busy
  THEN [cur |-> c, nxt |-> [has |-> TRUE, data |-> data, seq |-> s]]
  ELSE [cur |-> [busy |-> TRUE, data |-> data, seq |-> s], nxt |-> x]

\* Which write a caller of WriteRequest waits on.
WaitsOn(c) == IF c.busy THEN "nxt" ELSE "cur"

\* The write in progress has ended: the waiting snapshot, if any, is written next.
WriteNext(x) ==
  IF x.has THEN [busy |-> TRUE, data |-> x.data, seq |-> x.seq] ELSE IdleWrite

\* The file once the write in progress has landed.
Landed(f, c) == [f EXCEPT !.exists = TRUE, !.data = c.data, !.seq = c.seq]

\* `await db.update(...)`: the operation goes on once its write has ended.
\* Mutant of Awaited: db.update(...) is called without await.
AwaitedNever(w) == TRUE

Awaited(w) == w \in {"done", "failed"}

\* A rejected write rejects the operation that awaits it.
\* Mutant of StatusOf: the rejection is caught and dropped.
StatusOfSwallowed(w) == "ok"

StatusOf(w) == IF w = "failed" THEN "ioerror" ELSE "ok"

\* ------------------------------------------------------------------ Init
\* The file a store is opened on: none yet, or (createDatabase) a valid JSON
\* file holding the empty object {}. `found` tells, from then on, whether
\* the open found a file.
NoFile == [exists |-> FALSE, data |-> <<>>, seq |-> 0, found |-> FALSE]
EmptyObjectFile ==
  [exists |-> TRUE, data |-> Serialize(EmptyDoc), seq |-> 0, found |-> TRUE]

\* JSONFilePreset(filename, dbDefault), the adapter's open(path,
\* defaultDocument): "if the file at path exists, parse and return its
\* contents as the live Document; otherwise create the file containing
\* defaultDocument and return that."
\* Mutant of Open: the defaults are spread over what the file holds.
OpenDefaultsWin(f, dbDefault) == dbDefault

Open(f, dbDefault) == IF f.exists THEN Parse(f.data) ELSE dbDefault

\* The file as open leaves it: untouched when there was one, created with
\* the default document otherwise.
OpenedFile(f, dbDefault) ==
  IF f.exists THEN f
  ELSE [exists |-> TRUE, data |-> Serialize(dbDefault), seq |-> 0, found |-> FALSE]

\* What the caller holds on to across operations: the handle returned by a
\* call of table(name), with the number of mutations issued before that
\* call, the array returned by a call of getAll, and the object it gave the
\* factory as defaultData or initialTables.
NoKept == [handle |-> <<>>, since |-> 0, view |-> <<>>, given |-> <<>>]

\* table(tableName): an object of closures over tableName and db. Nothing of
\* the document is read or captured when it is made.
\* Mutant of Table: the handle captures db.data as it is when it is made,
\* and its functions work on what was captured.
TableCapturing(d, n) == [name |-> n, captured |-> <<d>>]

Table(d, n) == [name |-> n, captured |-> <<>>]

\* getAll(): `return db.data[collection]`, the array of the document itself,
\* as the caller keeps it: the table it was read from and what it holds.
GetAll(d, n) == [tab |-> n, rows |-> d.rows[n]]

\* The array v returned earlier, once operation o has made the document d:
\* push, the assignment to an index and splice change in place the array
\* bound to the table of o, which v follows as long as it is that array;
\* clear, createTable, dropTable and the updateData callbacks bind another
\* array to a key or none, and no array changes.
\* Mutant of ViewAfter: add, update and remove bind a changed copy to the key.
ViewAfterRebound(v, o, d) == v

ViewAfter(v, o, d) ==
  IF o.kind \in {"add", "update", "remove"} /\ InView \in Group(d, InData(o.tab))
  THEN [v EXCEPT !.rows = d.rows[o.tab]]
  ELSE v

\* The object g given to the factory: where no file existed its arrays are
\* the arrays of the document (the defaults are a shallow copy), and are
\* changed in place with them.
GivenAfter(g, o, d) ==
  IF o.kind \in {"add", "update", "remove"}
  THEN [g EXCEPT !.rows = [k \in Keys |->
                            IF InGiven(k) \in Group(d, InData(o.tab))
                            THEN d.rows[o.tab] ELSE g.rows[k]]]
  ELSE g

KeptAfter(k, o, d) ==
  [k EXCEPT !.view = IF @ = <<>> THEN @ ELSE <<ViewAfter(@[1], o, d)>>,
            !.given = IF @ = <<>> THEN @ ELSE <<GivenAfter(@[1], o, d)>>]

\* The value of db.data[n] where it is no array: the function
\* Object.prototype.toString, the metadata object (of which the table list is
\* kept), or undefined (<<>>).
NonArray(d, n) ==
  IF Lookup(d, n) = "function" THEN <<[fn |-> n]>>
  ELSE IF Lookup(d, n) = "object" THEN <<[tables |-> d.tables]>>
  ELSE <<>>

\* What a read returns where it does not throw: an array as the sequence of
\* its records, any other value as a one-element sequence, undefined as <<>>.
\* find, findOne and query are called with (item) => item.id === i, resp.
\* (rows) => rows. getAll and query return db.data[n] whatever it is; the
\* others are not reached on a value that is no array unless they throw.
ReadValue(d, n, kind, i) ==
  IF kind = "listTables" THEN ListTables(d)
  ELSE IF kind = "exists" THEN <<Exists(d, n)>>
  ELSE IF kind = "count" THEN Count(d, n)
  ELSE IF Lookup(d, n) # "array" THEN
    (IF kind \in {"getAll", "query"} THEN NonArray(d, n) ELSE <<>>)
  ELSE IF kind \in {"getById", "findOne"} THEN GetById(d.rows[n], i)
  ELSE IF kind = "find" THEN FilterById(d.rows[n], i)
  ELSE d.rows[n]

Init ==
  /\ mode \in {"single", "multi"}
  /\ \E f \in IF mode = "single" THEN {NoFile, EmptyObjectFile} ELSE {NoFile},
        init \in InitialTables, rows \in InitialRows :
       LET dbDefault == IF mode = "single" THEN SingleDefault(rows)
                                           ELSE MultiDefault(init, rows)
       IN /\ doc = Open(f, dbDefault)
          /\ file = OpenedFile(f, dbDefault)
  /\ cur = IdleWrite
  /\ nxt = NoNext
  /\ pend = <<>>
  /\ seq = 0
  /\ hist = <<>>
  /\ resolved = NoOp
  /\ net = 0
  /\ clean = (mode = "single" /\ ~file.found /\ doc.rows[Coll] = <<>>)
  /\ util = NoCall
  /\ kept = NoKept

\* -------------------------------------------------------- issuing, settling
\* No operation whose write has ended is still waiting for its continuation.
\* Continuations of settled promises run before the next file event.
Drained == \A k \in DOMAIN pend : pend[k].w \notin {"done", "failed"}

\* Operations are called from a task of the caller, which runs when no
\* continuation is waiting, or from the code that follows an operation which
\* has just settled.
CallerRuns == Drained \/ resolved.kind # "none"

\* await db.update(mutator): the mutator has turned db.data into d, the
\* snapshot of d is handed to the writer and the operation is suspended.
Submit(o, d) ==
  /\ CallerRuns
  /\ seq < MaxOps
  /\ seq' = seq + 1
  /\ doc' = d
  /\ hist' = Append(hist, d)
  /\ cur' = WriteRequest(cur, nxt, Serialize(d), seq + 1).cur
  /\ nxt' = WriteRequest(cur, nxt, Serialize(d), seq + 1).nxt
  /\ pend' = Append([k \in DOMAIN pend |-> [pend[k] EXCEPT !.after = @ + 1]],
                    [o EXCEPT !.seq = seq + 1, !.w = WaitsOn(cur),
                              !.edit = (d # doc)])
  /\ resolved' = NoOp
  /\ clean' = (clean /\ o.kind \in {"add", "remove"})
  /\ net' = IF ~clean' THEN 0
            ELSE IF o.kind = "add" THEN net + 1
            ELSE IF o.removed # <<>> THEN net - 1
            ELSE net
  /\ kept' = KeptAfter(kept, o, d)
  /\ UNCHANGED <<mode, file, util>>

\* ------------------------------------------- createDatabase (one collection)
SAdd(item) ==
  /\ mode = "single"
  /\ SIssueStatus(doc, "add") = "accepted"
  /\ Submit([NoOp EXCEPT !.kind = "add", !.tab = Coll, !.item = item,
                         !.own = Own(doc, Coll),
                         !.pre = GetById(doc.rows[Coll], item.id),
                         !.serial = <<item>>],
            AddMut(doc, Coll, item))

SUpdate(i, p) ==
  /\ mode = "single"
  /\ SIssueStatus(doc, "update") = "accepted"
  /\ Submit([NoOp EXCEPT !.kind = "update", !.tab = Coll, !.id = i, !.p = p,
                         !.own = Own(doc, Coll),
                         !.pre = GetById(doc.rows[Coll], i),
                         !.serial = GetById(UpdateMut(doc, Coll, i, p).rows[Coll], i)],
            UpdateMut(doc, Coll, i, p))

SRemove(i) ==
  /\ mode = "single"
  /\ SIssueStatus(doc, "remove") = "accepted"
  /\ Submit([NoOp EXCEPT !.kind = "remove", !.tab = Coll, !.id = i,
                         !.own = Own(doc, Coll),
                         !.pre = GetById(doc.rows[Coll], i),
                         !.removed = Removed(doc, Coll, i),
                         !.serial = Removed(doc, Coll, i)],
            RemoveMut(doc, Coll, i))

SClear ==
  /\ mode = "single"
  /\ Submit([NoOp EXCEPT !.kind = "clear", !.tab = Coll, !.own = Own(doc, Coll)],
            ClearMut(doc, Coll))

\* add, update or remove while db.data[collectionName] is no array: the
\* mutator throws inside db.update, the promise rejects, nothing is written.
SReject(kind) ==
  /\ mode = "single"
  /\ CallerRuns
  /\ SIssueStatus(doc, kind) # "accepted"
  /\ resolved' = [NoOp EXCEPT !.kind = kind, !.tab = Coll, !.own = Own(doc, Coll),
                              !.status = SIssueStatus(doc, kind)]
  /\ UNCHANGED <<mode, doc, file, cur, nxt, pend, seq, hist, net, clean, util, kept>>

SUpdateData(cb) ==
  /\ mode = "single"
  /\ Submit([NoOp EXCEPT !.kind = "updateData", !.tab = Coll,
                         !.own = Own(doc, Coll)],
            CallbackOf(doc, Coll, cb))

\* ------------------------------------- createMultiTableDatabase: table(n)
TAdd(n, item) ==
  /\ mode = "multi"
  /\ IssueStatus(doc, n, "add") = "accepted"
  /\ LET o == [NoOp EXCEPT !.kind = "add", !.tab = n, !.item = item,
                           !.own = Own(doc, n),
                           !.pre = GetById(doc.rows[n], item.id),
                           !.serial = <<item>>]
     IN Submit(o, AddMut(doc, n, item))

TUpdate(n, i, p) ==
  /\ mode = "multi"
  /\ IssueStatus(doc, n, "update") = "accepted"
  /\ LET o == [NoOp EXCEPT !.kind = "update", !.tab = n, !.id = i, !.p = p,
                           !.own = Own(doc, n),
                           !.pre = GetById(doc.rows[n], i),
                           !.serial = GetById(UpdateMut(doc, n, i, p).rows[n], i)]
     IN Submit(o, UpdateMut(doc, n, i, p))

TRemove(n, i) ==
  /\ mode = "multi"
  /\ IssueStatus(doc, n, "remove") = "accepted"
  /\ LET o == [NoOp EXCEPT !.kind = "remove", !.tab = n, !.id = i,
                           !.own = Own(doc, n),
                           !.pre = GetById(doc.rows[n], i),
                           !.removed = Removed(doc, n, i),
                           !.serial = Removed(doc, n, i)]
     IN Submit(o, RemoveMut(doc, n, i))

\* data[n] = [] needs no array: it succeeds on whatever ensureTable let through.
TClear(n) ==
  /\ mode = "multi"
  /\ IssueStatus(doc, n, "clear") = "accepted"
  /\ LET o == [NoOp EXCEPT !.kind = "clear", !.tab = n, !.own = Own(doc, n)]
     IN Submit(o, ClearMut(doc, n))

\* add, update, remove or clear on table(n) throws before db.update writes
\* anything: the promise rejects and nothing has changed.
TReject(n, kind) ==
  /\ mode = "multi"
  /\ CallerRuns
  /\ IssueStatus(doc, n, kind) # "accepted"
  /\ resolved' = [NoOp EXCEPT !.kind = kind, !.tab = n, !.own = Own(doc, n),
                              !.status = IssueStatus(doc, n, kind)]
  /\ UNCHANGED <<mode, doc, file, cur, nxt, pend, seq, hist, net, clean, util, kept>>

\* ------------------------------------------ createMultiTableDatabase: store
MUpdateData(n) ==
  /\ mode = "multi"
  /\ Submit([NoOp EXCEPT !.kind = "updateData", !.tab = n, !.own = Own(doc, n)],
            CallbackMut(doc, n))

\* The caller holds an array as h: the array bound to a key of the
\* document, the one it got from getAll, or one of the object it gave.
Holds(h) ==
  IF h.at = "data" THEN Lookup(doc, h.key) = "array"
  ELSE IF h.at = "view" THEN kept.view # <<>>
  ELSE kept.given # <<>> /\ Own(kept.given[1], h.key)

HeldRows(h) ==
  IF h.at = "data" THEN doc.rows[h.key]
  ELSE IF h.at = "view" THEN kept.view[1].rows
  ELSE kept.given[1].rows[h.key]

\* createTable(n, initialData), initialData a new array of records init
\* (held = <<>>) or the array, of records init, that the caller holds as
\* held[1].
CreateTable(n, init, held) ==
  /\ mode = "multi"
  /\ held # <<>> => (Holds(held[1]) /\ init = HeldRows(held[1]))
  /\ Submit([NoOp EXCEPT !.kind = "createTable", !.tab = n, !.init = init,
                         !.own = Own(doc, n)],
            CreateTableMut(doc, n, init, held))

DropTable(n) ==
  /\ mode = "multi"
  /\ Submit([NoOp EXCEPT !.kind = "dropTable", !.tab = n, !.own = Own(doc, n)],
            DropTableMut(doc, n))

\* ------------------------------------------------------------ file writes
Advance(ws, to) ==
  [k \in DOMAIN ws |->
     [ws[k] EXCEPT !.w = IF @ = "cur" THEN to ELSE IF @ = "nxt" THEN "cur" ELSE @]]

WriteOk ==
  /\ cur.busy
  /\ Drained
  /\ file' = Landed(file, cur)
  /\ cur' = WriteNext(nxt)
  /\ nxt' = NoNext
  /\ pend' = Advance(pend, "done")
  /\ resolved' = NoOp
  /\ UNCHANGED <<mode, doc, seq, hist, net, clean, util, kept>>

WriteFail ==
  /\ cur.busy
  /\ Drained
  /\ cur' = WriteNext(nxt)
  /\ nxt' = NoNext
  /\ pend' = Advance(pend, "failed")
  /\ resolved' = NoOp
  /\ clean' = FALSE
  /\ net' = 0
  /\ UNCHANGED <<mode, doc, file, seq, hist, util, kept>>

\* ----------------------------------------------------- after the await
\* Continuations run in the order in which the operations were issued.
\* What the operation returns once `await db.update(...)` is over: add returns
\* its argument, remove its closure variable, update looks the id up again in
\* db.data as it is now.
ReturnStatus(d, o) ==
  IF StatusOf(o.w) # "ok" THEN StatusOf(o.w)
  ELSE IF o.kind = "update" /\ Throws(d, o.tab) THEN "typeerror"
  ELSE "ok"

ReturnValue(d, o) ==
  IF ReturnStatus(d, o) # "ok" THEN <<>>
  ELSE IF o.kind = "add" THEN <<o.item>>
  ELSE IF o.kind = "update" THEN GetById(d.rows[o.tab], o.id)
  ELSE IF o.kind = "remove" THEN o.removed
  ELSE <<>>

Resolve(k) ==
  /\ k \in DOMAIN pend
  /\ Awaited(pend[k].w)
  /\ \A j \in 1..(k - 1) : pend[j].w \notin {"done", "failed"}
  /\ resolved' = [pend[k] EXCEPT !.status = ReturnStatus(doc, pend[k]),
                                 !.result = ReturnValue(doc, pend[k])]
  /\ pend' = SubSeq(pend, 1, k - 1) \o SubSeq(pend, k + 1, Len(pend))
  /\ UNCHANGED <<mode, doc, file, cur, nxt, seq, hist, net, clean, util, kept>>

\* ------------------------------------------------------------------- Next
Next ==
  \/ \E item \in Records : SAdd(item)
  \/ \E i \in Ids, p \in Partials : SUpdate(i, p)
  \/ \E i \in Ids : SRemove(i)
  \/ SClear
  \/ \E kind \in MutKinds : SReject(kind)
  \/ \E cb \in Callbacks : SUpdateData(cb)
  \/ \E n \in Names, item \in Records : TAdd(n, item)
  \/ \E n \in Names, i \in Ids, p \in Partials : TUpdate(n, i, p)
  \/ \E n \in Names, i \in Ids : TRemove(n, i)
  \/ \E n \in Names : TClear(n)
  \/ \E n \in Names, kind \in MutKinds : TReject(n, kind)
  \/ \E n \in Names : MUpdateData(n)
  \/ \E n \in Names, init \in InitialData : CreateTable(n, init, <<>>)
  \/ \E n \in Names : DropTable(n)
  \/ WriteOk
  \/ WriteFail
  \/ \E k \in 1..MaxOps : Resolve(k)

Spec == Init /\ [][Next]_vars

\* --------------------------- createMultiTableDatabase and the reserved key
\* A multi-table store whose caller hands any key of the document, the
\* reserved key _metadata included, to createTable, dropTable and table():
\* tables are created, dropped, cleared and filled with one record.
InitReserved == Init /\ mode = "multi"

NextReserved ==
  \/ \E n \in Keys, init \in InitialData : CreateTable(n, init, <<>>)
  \/ \E n \in Keys : DropTable(n)
  \/ \E n \in Keys, item \in InitialData \ {<<>>} : TAdd(n, item[1])
  \/ \E n \in Keys, item \in InitialData \ {<<>>} : TRemove(n, item[1].id)
  \/ \E n \in Keys : TClear(n)
  \/ \E n \in Keys, kind \in MutKinds : TReject(n, kind)
  \/ \E n \in Names : MUpdateData(n)
  \/ WriteOk
  \/ WriteFail
  \/ \E k \in 1..MaxOps : Resolve(k)

SpecReserved == InitReserved /\ [][NextReserved]_vars

\* ------------------------------------------- reads, handles and arrays kept
\* A caller that reads, and that keeps what table() and getAll() returned.
\* The reads of createDatabase's store.
SReadKinds == ReadKinds \ {"exists"}

SRead(kind, i) ==
  /\ mode = "single"
  /\ CallerRuns
  /\ resolved' = [NoOp EXCEPT !.kind = kind, !.tab = Coll, !.id = i,
                              !.own = Own(doc, Coll),
                              !.status = SReadStatus(doc, kind),
                              !.result = IF SReadStatus(doc, kind) = "ok"
                                         THEN ReadValue(doc, Coll, kind, i) ELSE <<>>]
  /\ UNCHANGED <<mode, doc, file, cur, nxt, pend, seq, hist, net, clean, util, kept>>

\* db.data as a function of handle h finds it when it is called on a store
\* whose document is d: the handle holds db, the store, and nothing of its
\* data, so what it finds is d.
Live(h, d) == IF h.captured = <<>> THEN d ELSE h.captured[1]

\* A read called on handle h: ensureTable(tableName) where the function
\* calls it, then the value computed from db.data[tableName].
ReadOn(h, d, kind, i) ==
  [status |-> ReadStatus(Live(h, d), h.name, kind),
   result |-> IF ReadStatus(Live(h, d), h.name, kind) = "ok"
              THEN ReadValue(Live(h, d), h.name, kind, i) ELSE <<>>]

\* The handle kept is one for table n.
OnHandle(n) == kept.handle # <<>> /\ kept.handle[1].name = n

\* db.table(n), the handle being kept.
ObtainTable(n) ==
  /\ mode = "multi"
  /\ CallerRuns
  /\ kept.handle = <<>>
  /\ kept' = [kept EXCEPT !.handle = <<Table(doc, n)>>, !.since = seq]
  /\ UNCHANGED <<mode, doc, file, cur, nxt, pend, seq, hist, resolved, net, clean, util>>

\* A read on the handle kept.
\* Mutant of TRead: the read answers from the document as the file holds it.
TReadPersisted(kind, i) ==
  /\ mode = "multi"
  /\ CallerRuns
  /\ kept.handle # <<>>
  /\ LET h == kept.handle[1]
         d == Parse(file.data)
     IN resolved' = [NoOp EXCEPT !.kind = kind, !.tab = h.name, !.id = i,
                                 !.own = Own(doc, h.name),
                                 !.status = ReadOn(h, doc, kind, i).status,
                                 !.result = IF ReadOn(h, doc, kind, i).status = "ok"
                                            THEN ReadValue(d, h.name, kind, i) ELSE <<>>]
  /\ UNCHANGED <<mode, doc, file, cur, nxt, pend, seq, hist, net, clean, util, kept>>

TRead(kind, i) ==
  /\ mode = "multi"
  /\ CallerRuns
  /\ kept.handle # <<>>
  /\ LET h == kept.handle[1]
     IN resolved' = [NoOp EXCEPT !.kind = kind, !.tab = h.name, !.id = i,
                                 !.own = Own(doc, h.name),
                                 !.status = ReadOn(h, doc, kind, i).status,
                                 !.result = ReadOn(h, doc, kind, i).result]
  /\ UNCHANGED <<mode, doc, file, cur, nxt, pend, seq, hist, net, clean, util, kept>>

\* db.listTables()
ListTablesRead ==
  /\ mode = "multi"
  /\ CallerRuns
  /\ resolved' = [NoOp EXCEPT !.kind = "listTables", !.status = "ok",
                              !.result = ReadValue(doc, Coll, "listTables", 1)]
  /\ UNCHANGED <<mode, doc, file, cur, nxt, pend, seq, hist, net, clean, util, kept>>

\* getAll() on the collection, or on the handle kept, the array returned
\* being kept.
KeepGetAll(n) ==
  /\ CallerRuns
  /\ kept.view = <<>>
  /\ IF mode = "single" THEN n = Coll ELSE OnHandle(n)
  /\ Lookup(doc, n) = "array"
  /\ kept' = [kept EXCEPT !.view = <<GetAll(doc, n)>>]
  /\ doc' = [doc EXCEPT !.shared = Joined(@, InView, InData(n))]
  /\ UNCHANGED <<mode, file, cur, nxt, pend, seq, hist, resolved, net, clean, util>>

\* The arrays the caller hands to createTable again: the one bound to a
\* table, the one it got from getAll.
CallerHolds == {InData(k) : k \in Names} \cup {InView}

\* The records and fields the caller works with.
CallerRecords == {r \in Records : r.id = 1}
CallerPartials == {p \in Partials : p.hasName /\ ~p.hasId}

NextCaller ==
  \/ \E item \in CallerRecords : SAdd(item)
  \/ \E p \in CallerPartials : SUpdate(1, p)
  \/ SRemove(1)
  \/ SClear
  \/ \E kind \in SReadKinds : SRead(kind, 1)
  \/ \E n \in Names : ObtainTable(n)
  \/ \E n \in Names, item \in CallerRecords : OnHandle(n) /\ TAdd(n, item)
  \/ \E n \in Names, p \in CallerPartials : OnHandle(n) /\ TUpdate(n, 1, p)
  \/ \E n \in Names : OnHandle(n) /\ TRemove(n, 1)
  \/ \E n \in Names : OnHandle(n) /\ TClear(n)
  \/ \E n \in Names, kind \in MutKinds : OnHandle(n) /\ TReject(n, kind)
  \/ \E kind \in ReadKinds : TRead(kind, 1)
  \/ ListTablesRead
  \/ \E n \in Names, init \in InitialData : OnHandle(n) /\ CreateTable(n, init, <<>>)
  \/ \E n \in Names : OnHandle(n) /\ DropTable(n)
  \/ WriteOk
  \/ WriteFail
  \/ \E k \in 1..MaxOps : Resolve(k)

\* The store is opened where no file exists yet.
InitCaller == Init /\ ~file.found

SpecCaller == InitCaller /\ [][NextCaller]_vars

\* A caller that keeps the array it got from getAll and hands arrays it
\* holds to createTable, so that one array comes to be bound to two tables.
NextShared ==
  \/ \E item \in CallerRecords : SAdd(item)
  \/ \E p \in CallerPartials : SUpdate(1, p)
  \/ SRemove(1)
  \/ SClear
  \/ \E n \in Names : ObtainTable(n)
  \/ \E n \in Names, item \in CallerRecords : OnHandle(n) /\ TAdd(n, item)
  \/ \E n \in Names, p \in CallerPartials : OnHandle(n) /\ TUpdate(n, 1, p)
  \/ \E n \in Names : OnHandle(n) /\ TRemove(n, 1)
  \/ \E n \in Names : OnHandle(n) /\ TClear(n)
  \/ \E n \in Names : KeepGetAll(n)
  \/ \E n \in Names, init \in InitialData : OnHandle(n) /\ CreateTable(n, init, <<>>)
  \/ \E n \in Names, h \in CallerHolds :
       OnHandle(n) /\ Holds(h) /\ CreateTable(n, HeldRows(h), <<h>>)
  \/ \E n \in Names : OnHandle(n) /\ DropTable(n)
  \/ WriteOk
  \/ WriteFail
  \/ \E k \in 1..MaxOps : Resolve(k)

SpecShared == InitCaller /\ [][NextShared]_vars

\* ------------------------------------------------------ opening a store
\* The objects handed to a factory as defaultData or initialTables: no field,
\* the collection bound to records, another field bound to an array, both in
\* either order.
Given ==
  {EmptyDoc}
    \cup {[EmptyDoc EXCEPT !.keys = ks, !.rows[Coll] = rows, !.rows["toString"] = other] :
            ks \in {<<Coll>>, <<"toString">>, <<Coll, "toString">>, <<"toString", Coll>>},
            rows \in {<<>>, <<[id |-> 1, name |-> "A"]>>},
            other \in {<<[id |-> 2, name |-> "A"]>>}}

\* { [collectionName]: [], ...defaultData }: the collection is the first
\* key; a field of defaultData with its name replaces the empty array.
\* Mutant of SingleDefaultOf: { ...defaultData, [collectionName]: [] }
SingleDefaultReset(g) ==
  [keys |-> IF Own(g, Coll) THEN g.keys ELSE Append(g.keys, Coll),
   rows |-> [k \in Keys |-> IF k # Coll /\ Own(g, k) THEN g.rows[k] ELSE <<>>],
   tables |-> <<>>, marr |-> FALSE,
   shared |-> {{InData(k), InGiven(k)} : k \in Range(g.keys) \ {Coll}}]

SingleDefaultOf(g) ==
  [keys |-> <<Coll>> \o SelectSeq(g.keys, LAMBDA k : k # Coll),
   rows |-> [k \in Keys |-> IF Own(g, k) THEN g.rows[k] ELSE <<>>],
   tables |-> <<>>, marr |-> FALSE,
   shared |-> {{InData(k), InGiven(k)} : k \in Range(g.keys)}]

\* { ...initialTables, _metadata: { created, version, tables: Object.keys(initialTables) } }
MultiDefaultOf(g) ==
  [keys |-> Append(g.keys, MetaKey),
   rows |-> [k \in Keys |-> IF Own(g, k) THEN g.rows[k] ELSE <<>>],
   tables |-> g.keys, marr |-> FALSE,
   shared |-> {{InData(k), InGiven(k)} : k \in Range(g.keys)}]

\* The files a store is opened on: none, or what an earlier run of either
\* factory has written.
FilesGiven ==
  {NoFile, EmptyObjectFile}
    \cup {[exists |-> TRUE, data |-> Serialize(SingleDefaultOf(g)), seq |-> 0,
           found |-> TRUE] : g \in Given}
    \cup {[exists |-> TRUE, data |-> Serialize(MultiDefaultOf(g)), seq |-> 0,
           found |-> TRUE] : g \in Given}

InitOpen ==
  /\ mode \in {"single", "multi"}
  /\ \E f \in FilesGiven, g \in Given :
       LET dbDefault == IF mode = "single" THEN SingleDefaultOf(g) ELSE MultiDefaultOf(g)
       IN /\ doc = Open(f, dbDefault)
          /\ file = OpenedFile(f, dbDefault)
          /\ kept = [NoKept EXCEPT !.given = <<g>>]
  /\ cur = IdleWrite
  /\ nxt = NoNext
  /\ pend = <<>>
  /\ seq = 0
  /\ hist = <<>>
  /\ resolved = NoOp
  /\ net = 0
  /\ clean = FALSE
  /\ util = NoCall

\* The store is read and added to once it is open.
NextOpen ==
  \/ \E item \in CallerRecords : SAdd(item)
  \/ \E kind \in SReadKinds : SRead(kind, 1)
  \/ \E n \in Names, item \in CallerRecords : TAdd(n, item)
  \/ ListTablesRead
  \/ WriteOk
  \/ \E k \in 1..MaxOps : Resolve(k)

SpecOpen == InitOpen /\ [][NextOpen]_vars

\* ------------------------------------- calls of the array and string utilities
\* No store is involved: one utility is called with arguments of its domain.
store == <<mode, doc, file, cur, nxt, pend, seq, hist, resolved, net, clean, kept>>

UtilCalls ==
  {[NoCall EXCEPT !.fn = "chunk", !.arr = arr, !.size = size, !.pc = "loop"] :
     arr \in Arrays, size \in 1..MaxSize}
  \cup
  {[NoCall EXCEPT !.fn = "truncate", !.str = str, !.length = length,
                  !.suffix = suffix, !.pc = "call"] :
     str \in Arrays, length \in 0..MaxSize, suffix \in Suffixes}
  \cup
  {[NoCall EXCEPT !.fn = "maskString", !.str = str, !.visibleStart = vs,
                  !.visibleEnd = ve, !.maskChar = c, !.pc = "call"] :
     str \in Arrays, vs \in 0..MaxSize, ve \in 0..MaxSize, c \in MaskChars}

InitUtil ==
  /\ mode = "utils"
  /\ doc = EmptyDoc
  /\ file = NoFile
  /\ cur = IdleWrite
  /\ nxt = NoNext
  /\ pend = <<>>
  /\ seq = 0
  /\ hist = <<>>
  /\ resolved = NoOp
  /\ net = 0
  /\ clean = FALSE
  /\ kept = NoKept
  /\ util \in UtilCalls

\* The elements of chunk's local array that are recorded: one more than the
\* longest array has elements, so that a loop which makes progress ends
\* before more are pushed.
MaxPasses == MaxLen + 1

\* for (let i = 0; i < arr.length; i += size) chunks.push(arr.slice(i, i + size))
ChunkStep ==
  /\ util.fn = "chunk" /\ util.pc = "loop"
  /\ util.i < Len(util.arr)
  /\ util' = [util EXCEPT
       !.chunks = IF Len(@) < MaxPasses
                  THEN Append(@, ChunkSlice(util.arr, util.i, util.size)) ELSE @,
       !.over = IF Len(util.chunks) < MaxPasses THEN @ ELSE 1 - @,
       !.i = Max(@ + util.size, 0 - Len(util.arr))]
  /\ UNCHANGED store

\* return chunks
ChunkReturn ==
  /\ util.fn = "chunk" /\ util.pc = "loop"
  /\ ~(util.i < Len(util.arr))
  /\ util' = [util EXCEPT !.pc = "done", !.result = util.chunks]
  /\ UNCHANGED store

TruncateCall ==
  /\ util.fn = "truncate" /\ util.pc = "call"
  /\ util' = [util EXCEPT !.pc = "done",
                          !.result = Truncate(util.str, util.length, util.suffix)]
  /\ UNCHANGED store

MaskStringCall ==
  /\ util.fn = "maskString" /\ util.pc = "call"
  /\ util' = [util EXCEPT !.pc = "done",
                          !.result = MaskString(util.str, util.visibleStart,
                                                util.visibleEnd, util.maskChar)]
  /\ UNCHANGED store

NextUtil ==
  \/ ChunkStep
  \/ ChunkReturn
  \/ TruncateCall
  \/ MaskStringCall

SpecUtil == InitUtil /\ [][NextUtil]_vars

\* chunk called with any integer as size; a call that has been entered goes
\* on running.
ChunkCalls ==
  {[NoCall EXCEPT !.fn = "chunk", !.arr = arr, !.size = size, !.pc = "loop"] :
     arr \in Arrays, size \in (0 - MaxSize)..MaxSize}

InitChunk ==
  /\ mode = "utils"
  /\ doc = EmptyDoc
  /\ file = NoFile
  /\ cur = IdleWrite
  /\ nxt = NoNext
  /\ pend = <<>>
  /\ seq = 0
  /\ hist = <<>>
  /\ resolved = NoOp
  /\ net = 0
  /\ clean = FALSE
  /\ kept = NoKept
  /\ util \in ChunkCalls

NextChunk ==
  \/ ChunkStep
  \/ ChunkReturn

SpecChunk == InitChunk /\ [][NextChunk]_vars /\ WF_vars(NextChunk)

\* =================================================================== claims
\* An operation that settled in the last step, having been suspended at its
\* await (and not thrown when issued).
Settled == resolved.seq > 0
\* ... with no other mutation issued between its call and its settling: the
\* caller awaited it before going on.
Alone == resolved.after = 0

\* C1 (as stated): right after add(r) resolves, getById(r.id) returns r.
C1_GetByIdReturnsAdded ==
  (resolved.kind = "add" /\ resolved.status = "ok" /\ Alone)
    => GetById(doc.rows[resolved.tab], resolved.item.id) = <<resolved.item>>

\* C1 (amended): right after add(r) resolves, getById(r.id) returns the first
\* record with that id: r itself when no record of the table had the id when
\* add was called, the earlier record otherwise.
C1_GetByIdReturnsFirst ==
  (resolved.kind = "add" /\ resolved.status = "ok" /\ Alone)
    => GetById(doc.rows[resolved.tab], resolved.item.id)
         = IF resolved.pre = <<>> THEN <<resolved.item>> ELSE resolved.pre

C1_Witness ==
  /\ resolved.kind = "add" /\ resolved.status = "ok" /\ Alone
  /\ resolved.pre = <<>>
  /\ Len(doc.rows[resolved.tab]) >= 2

\* C2: on a single-collection store created empty, once every add and remove
\* has resolved, count() is the number of add calls minus the number of
\* remove calls that returned a record.
C2_CountIsAddsMinusRemoves ==
  (clean /\ pend = <<>>) => Count(doc, Coll) = <<net>>

C2_Witness ==
  /\ clean /\ pend = <<>>
  /\ resolved.kind = "remove" /\ resolved.status = "ok" /\ resolved.result # <<>>
  /\ seq = MaxOps

\* C3 (as stated): update(i, p) on a present id resolves with the pre-update
\* record overlaid with p, for every p.
C3_UpdateReturnsMerged ==
  (resolved.kind = "update" /\ resolved.status = "ok" /\ Alone /\ resolved.pre # <<>>)
    => resolved.result = <<Overlay(resolved.pre[1], resolved.p)>>

\* C4: update(i, p) and remove(i) on an id no record has leave the document
\* as it is and, awaited, resolve with undefined without an error (the write
\* itself succeeding).
C4_NotFoundIsNoError ==
  (resolved.kind \in {"update", "remove"} /\ resolved.w = "done" /\ resolved.pre = <<>>)
    => /\ ~resolved.edit
       /\ Alone => (resolved.status = "ok" /\ resolved.result = <<>>)

C4_Witness ==
  /\ resolved.kind = "update" /\ resolved.w = "done" /\ resolved.pre = <<>>
  /\ Alone
  /\ resolved.p.hasName
  /\ Len(doc.rows[resolved.tab]) > 0

\* C5 (as stated): while a name is no key of the document, every read and
\* every mutation on table(name) fails with the table-absent error, and no
\* mutation on it is ever let through to the document or the file.
C5_AbsentTableFails ==
  mode = "multi" =>
    /\ \A n \in Names : ~Own(doc, n) =>
         /\ \A kind \in ReadKinds \ {"exists"} : ReadStatus(doc, n, kind) = "absent"
         /\ \A kind \in MutKinds : IssueStatus(doc, n, kind) = "absent"
    /\ \A k \in DOMAIN pend :
         pend[k].kind \in MutKinds => pend[k].own
    /\ (resolved.kind \in MutKinds /\ ~resolved.own)
         => (resolved.status = "absent" /\ ~resolved.edit)

\* C6: createTable(x, records) on an absent name makes x present - every
\* operation on table(x) gets past the table check, getAll() is records and
\* count() its length - and a dropTable(x) that follows removes the key again.
C6_CreateThenDrop ==
  /\ (resolved.kind = "createTable" /\ ~resolved.own /\ resolved.status = "ok" /\ Alone)
       => /\ Own(doc, resolved.tab)
          /\ \A kind \in ReadKinds : ReadStatus(doc, resolved.tab, kind) = "ok"
          /\ \A kind \in MutKinds : IssueStatus(doc, resolved.tab, kind) = "accepted"
          /\ doc.rows[resolved.tab] = resolved.init
          /\ Count(doc, resolved.tab) = <<Len(resolved.init)>>
  /\ (resolved.kind = "dropTable" /\ resolved.own /\ resolved.status = "ok" /\ Alone)
       => /\ ~Own(doc, resolved.tab)
          /\ resolved.tab \notin Range(ListTables(doc))

C6_Witness ==
  /\ resolved.kind = "dropTable" /\ resolved.own /\ resolved.status = "ok" /\ Alone
  /\ resolved.tab = "toString"
  /\ Len(hist) = 2 /\ hist[1].rows["toString"] # <<>>

\* C7: mutations issued without awaiting one another reach the document in
\* issuance order and the file in issuance order, one write at a time: the
\* file always holds the document as it was after some mutation k, the writes
\* in flight hold later ones, and k never decreases.
C7_PersistInOrder ==
  /\ [](/\ seq > 0 => doc = hist[seq]
        /\ file.seq > 0 => (file.seq <= seq /\ file.data = Serialize(hist[file.seq]))
        /\ cur.busy => (cur.seq > file.seq /\ cur.data = Serialize(hist[cur.seq]))
        /\ nxt.has => (cur.busy /\ nxt.seq > cur.seq))
  /\ [][file'.seq >= file.seq]_vars

C7_Witness ==
  /\ file.exists /\ file.seq = 1
  /\ cur.busy /\ cur.seq = 2
  /\ Len(pend) = 2

\* C8: a mutating operation resolves successfully only once a write holding
\* its edit has landed in the file.
C8_WrittenBeforeResolved ==
  (Settled /\ resolved.status = "ok")
    => /\ file.exists
       /\ file.seq >= resolved.seq
       /\ file.data = Serialize(hist[file.seq])

C8_Witness ==
  /\ Settled /\ resolved.status = "ok" /\ resolved.edit
  /\ resolved.kind = "updateData"
  /\ resolved.seq = 2

\* C9 (as stated): whatever is issued before it resolves, an operation whose
\* write succeeds resolves with the value it would return if the operations
\* ran one at a time in issuance order.
C9_SerialResults ==
  (Settled /\ resolved.w = "done")
    => (resolved.status = "ok" /\ resolved.result = resolved.serial)

\* C10: an operation whose write fails is rejected with that error; awaited,
\* it leaves the document with its edit, which the file does not hold.
C10_FailureKeepsEdit ==
  (Settled /\ resolved.w = "failed")
    => /\ resolved.status = "ioerror"
       /\ Alone => (doc = hist[resolved.seq] /\ file.seq < resolved.seq)

C10_Witness ==
  /\ Settled /\ resolved.w = "failed" /\ Alone
  /\ resolved.edit
  /\ file.exists

\* The defaults a factory may be handed when a store is opened again.
Defaults ==
  {SingleDefault(rows) : rows \in InitialRows}
    \cup {MultiDefault(init, rows) : init \in InitialTables, rows \in InitialRows}

Unique(rows) == \A j, k \in DOMAIN rows : rows[j].id = rows[k].id => j = k

\* ... in every collection of the document.
UniqueIds(d) == \A n \in Keys : Lookup(d, n) = "array" => Unique(d.rows[n])

\* C12 (as stated): in every reachable state, within each collection no two
\* records carry the same id.
C12_IdsUnique == UniqueIds(doc)

\* C12 (amended): the store does not check ids, the caller keeps them unique:
\* a step takes a document with unique ids to one with two records of the
\* same id only if it is an add of a record whose id is present, or an update
\* of a present record that supplies an id.
C12_OnlyCallerBreaksUnique ==
  [][(UniqueIds(doc) /\ ~UniqueIds(doc'))
       => /\ seq' = seq + 1
          /\ LET o == pend'[Len(pend')]
             IN \/ o.kind = "add" /\ o.pre # <<>>
                \/ o.kind = "update" /\ o.pre # <<>> /\ o.p.hasId]_vars

C12_Witness ==
  /\ Settled /\ resolved.status = "ok" /\ resolved.kind = "add"
  /\ resolved.pre = <<>>
  /\ UniqueIds(doc)
  /\ Len(doc.rows[resolved.tab]) = 2
  /\ doc.rows[resolved.tab][1].id # doc.rows[resolved.tab][2].id

\* C13 (as stated): once a createTable or dropTable has resolved, whatever
\* name it was given, the document has _metadata and _metadata.tables holds
\* exactly the top-level keys other than _metadata.
C13_MetadataListsKeys ==
  (Settled /\ resolved.kind \in {"createTable", "dropTable"}
     /\ resolved.status = "ok" /\ Alone)
    => /\ Own(doc, MetaKey)
       /\ doc.tables = TableKeys(doc)

\* C14 (as stated): in every reachable state of a multi-table store the set
\* of top-level keys other than _metadata is the set of names recorded in
\* _metadata.tables.
C14_KeysAreRecordedTables ==
  mode = "multi" =>
    /\ Own(doc, MetaKey)
    /\ Range(TableKeys(doc)) = Range(doc.tables)

\* C15 (as stated): whatever names createTable, dropTable and the table
\* handles are given, _metadata stays a key of the document, bound to the
\* object { created, version, tables } it was created with.
C15_MetadataIsReserved ==
  mode = "multi" => Lookup(doc, MetaKey) = "object"

\* C16: listTables() never contains the metadata key and contains a name
\* exactly when the name is a key of the document; at creation these are the
\* names of initialTables; a createTable that has resolved has put its name
\* on the list, a dropTable that has resolved has taken its name off.
C16_ListTablesIsPresentTables ==
  mode = "multi" =>
    /\ MetaKey \notin Range(ListTables(doc))
    /\ \A n \in Names : n \in Range(ListTables(doc)) <=> Own(doc, n)
    /\ Cardinality(Range(ListTables(doc))) = Len(ListTables(doc))
    /\ seq = 0 => ListTables(doc) \in InitialTables
    /\ (Settled /\ resolved.kind = "createTable" /\ resolved.status = "ok" /\ Alone
          /\ resolved.tab # MetaKey)
         => resolved.tab \in Range(ListTables(doc))
    /\ (Settled /\ resolved.kind = "dropTable" /\ resolved.status = "ok" /\ Alone)
         => resolved.tab \notin Range(ListTables(doc))

C16_Witness ==
  /\ mode = "multi"
  /\ Settled /\ resolved.kind = "dropTable" /\ resolved.status = "ok" /\ Alone
  /\ resolved.own
  /\ seq = 2
  /\ Len(ListTables(hist[1])) = 2
  /\ Len(ListTables(doc)) = 1

\* C17 (as stated): on a single-collection store getAll, find and query end
\* without an error in every reachable state, and what they return or hand
\* to the callback is the sequence of the collection's records (the empty
\* sequence when the collection is empty).
C17_ReadsNeverFail ==
  mode = "single" =>
    /\ \A kind \in {"getAll", "find", "query"} : SReadStatus(doc, kind) = "ok"
    /\ Lookup(doc, Coll) = "array"

\* The concatenation of a sequence of sequences.
RECURSIVE Flatten(_)
Flatten(ss) == IF ss = <<>> THEN <<>> ELSE Head(ss) \o Flatten(Tail(ss))

Returned(fn) == util.fn = fn /\ util.pc = "done"

\* C18: chunk(arr, size) with size >= 1 returns chunks whose concatenation is
\* arr, each of exactly size elements but the last, which has between 1 and
\* size; the empty array has no chunks.
C18_ChunkPartitions ==
  Returned("chunk") =>
    /\ Flatten(util.result) = util.arr
    /\ \A k \in DOMAIN util.result :
         /\ k < Len(util.result) => Len(util.result[k]) = util.size
         /\ Len(util.result[k]) \in 1..util.size
    /\ util.arr = <<>> => util.result = <<>>

C18_Witness ==
  /\ Returned("chunk")
  /\ Len(util.arr) = 3 /\ util.size = 2
  /\ Len(util.result) = 2 /\ Len(util.result[2]) = 1

\* C19 (as stated): truncate(str, length, suffix) with length >= 0 returns
\* str when str has at most length characters, and otherwise a string of
\* exactly length characters: a prefix of str followed by suffix.
C19_TruncateToLength ==
  Returned("truncate") =>
    IF Len(util.str) <= util.length THEN util.result = util.str
    ELSE /\ Len(util.result) = util.length
         /\ \E k \in 0..Len(util.str) :
              util.result = SubSeq(util.str, 1, k) \o util.suffix

\* C20 (as stated): maskString(str, visibleStart, visibleEnd, maskChar) with
\* both counts >= 0 returns str when str has at most visibleStart +
\* visibleEnd characters, and otherwise a string as long as str whose first
\* visibleStart and last visibleEnd characters are those of str, with
\* maskChar everywhere in between.
C20_MaskKeepsEnds ==
  Returned("maskString") =>
    IF Len(util.str) <= util.visibleStart + util.visibleEnd
    THEN util.result = util.str
    ELSE /\ Len(util.result) = Len(util.str)
         /\ \A k \in DOMAIN util.str :
              util.result[k] =
                IF k <= util.visibleStart \/ k > Len(util.str) - util.visibleEnd
                THEN util.str[k] ELSE util.maskChar

\* The operation issued by the step, when the step issues one.
Issues == seq' = seq + 1
Issued == pend'[Len(pend')]

\* C21: a step that issues add, update, remove or clear on table n leaves
\* every other key's array and the metadata as they are, and the keys as
\* they are but for a clear that binds n; update(i, p) writes the overlay at
\* the first index holding id i and leaves every other index as it is.
C21_OnlyOwnTableChanges ==
  [][(Issues /\ Issued.kind \in MutKinds) =>
       LET n == Issued.tab
           old == doc.rows[n]
           new == doc'.rows[n]
       IN /\ \A k \in Keys \ {n} : doc'.rows[k] = doc.rows[k]
          /\ doc'.tables = doc.tables
          /\ doc'.marr = doc.marr
          /\ doc'.keys = IF Own(doc, n) THEN doc.keys ELSE Append(doc.keys, n)
          /\ Issued.kind = "update" =>
               /\ Len(new) = Len(old)
               /\ \A j \in DOMAIN old :
                    new[j] = IF old[j].id = Issued.id
                                  /\ \A h \in 1..(j - 1) : old[h].id # Issued.id
                             THEN Overlay(old[j], Issued.p)
                             ELSE old[j]]_vars

\* The record of rows that is first to carry id i, as a lookup sees it:
\* <<r>>, or <<>> when no record carries it.
FirstWith(rows, i) ==
  IF \A k \in DOMAIN rows : rows[k].id # i THEN <<>>
  ELSE CHOOSE x \in {<<rows[k]>> : k \in DOMAIN rows} :
         \E k \in DOMAIN rows :
           /\ x = <<rows[k]>>
           /\ rows[k].id = i
           /\ \A j \in 1..(k - 1) : rows[j].id # i

\* The array new is the array old after update(i, p): the record at the
\* first index that carries id i has the fields p supplies and its own
\* otherwise; every other index, a later record with the same id included,
\* holds what it held.
UpdatesFirst(old, new, i, p) ==
  /\ Len(new) = Len(old)
  /\ \A j \in DOMAIN old :
       IF old[j].id = i /\ \A h \in 1..(j - 1) : old[h].id # i
       THEN /\ new[j].id = IF p.hasId THEN p.id ELSE old[j].id
            /\ new[j].name = IF p.hasName THEN p.name ELSE old[j].name
       ELSE new[j] = old[j]

\* The array new is the array old after remove(i): the first index that
\* carries id i is gone, the records before it and after it, a later record
\* with the same id included, follow each other as before; with no such
\* index, nothing has changed.
RemovesFirst(old, new, i) ==
  IF \A k \in DOMAIN old : old[k].id # i THEN new = old
  ELSE \E k \in DOMAIN old :
         /\ old[k].id = i
         /\ \A j \in 1..(k - 1) : old[j].id # i
         /\ Len(new) = Len(old) - 1
         /\ \A j \in 1..(k - 1) : new[j] = old[j]
         /\ \A j \in (k + 1)..Len(old) : new[j - 1] = old[j]

\* C22: add(r) puts r after the records present, which stay as they were,
\* whether or not its id is present; it resolves with r whenever its write
\* succeeds; getById returns the first record that carries the id it is
\* given; update changes that record and no other, remove takes out that
\* record and no other, whatever later records carry the same id.
C22_AddAppends ==
  /\ []((Settled /\ resolved.kind = "add" /\ resolved.w = "done")
          => (resolved.status = "ok" /\ resolved.result = <<resolved.item>>))
  /\ [](\A n \in Names, i \in Ids :
          Lookup(doc, n) = "array" => GetById(doc.rows[n], i) = FirstWith(doc.rows[n], i))
  /\ [][Issues =>
          /\ Issued.kind = "add"
               => doc'.rows[Issued.tab] = Append(doc.rows[Issued.tab], Issued.item)
          /\ Issued.kind = "update"
               => UpdatesFirst(doc.rows[Issued.tab], doc'.rows[Issued.tab],
                               Issued.id, Issued.p)
          /\ Issued.kind = "remove"
               => RemovesFirst(doc.rows[Issued.tab], doc'.rows[Issued.tab], Issued.id)
          /\ Issued.kind \in {"update", "remove"}
               => Issued.pre = FirstWith(doc.rows[Issued.tab], Issued.id)
          /\ (Issued.kind = "remove" /\ Issued.pre # <<>>)
               => Issued.removed = Issued.pre]_vars

\* An add of a record whose id is present already, then an update by that
\* id: the table holds the id twice, the update has changed the name of the
\* first of the two records and left the record added as it was.
C22_Witness ==
  /\ seq = 2 /\ Len(pend) = 2
  /\ pend[1].kind = "add" /\ pend[1].pre # <<>> /\ pend[1].pre # <<pend[1].item>>
  /\ pend[2].kind = "update" /\ pend[2].tab = pend[1].tab
  /\ pend[2].id = pend[1].item.id /\ pend[2].p.hasName
  /\ Len(hist[1].rows[pend[1].tab]) = 2
  /\ hist[1].rows[pend[1].tab][2] = pend[1].item
  /\ doc.rows[pend[1].tab][1].name # hist[1].rows[pend[1].tab][1].name
  /\ doc.rows[pend[1].tab][2] = pend[1].item

\* C23: remove(i) on a table where some record carries id i takes out the
\* first such record and nothing else - the records before it and after it
\* stay in their order and count() goes down by one - and resolves with the
\* record taken out whenever its write succeeds.
C23_RemoveTakesFirst ==
  /\ []((Settled /\ resolved.kind = "remove" /\ resolved.w = "done"
           /\ resolved.pre # <<>>)
          => (resolved.status = "ok" /\ resolved.result = resolved.pre))
  /\ [][(Issues /\ Issued.kind = "remove" /\ Issued.pre # <<>>) =>
          LET n == Issued.tab
              old == doc.rows[n]
              new == doc'.rows[n]
          IN /\ Count(doc', n) = <<Count(doc, n)[1] - 1>>
             /\ \E k \in DOMAIN old :
                  /\ <<old[k]>> = FirstWith(old, Issued.id)
                  /\ \A j \in 1..(k - 1) : old[j].id # Issued.id /\ new[j] = old[j]
                  /\ \A j \in (k + 1)..Len(old) : new[j - 1] = old[j]]_vars

C23_Witness ==
  /\ Settled /\ resolved.kind = "remove" /\ resolved.status = "ok" /\ Alone
  /\ resolved.result = <<[id |-> 1, name |-> "A"]>>
  /\ doc.rows[resolved.tab] = <<[id |-> 1, name |-> "B"]>>
  /\ seq = 1

\* A read has just returned.
AllReads == ReadKinds \cup {"listTables"}
ReadReturns == resolved' # resolved /\ resolved'.kind \in AllReads

\* C24: a read returns in the step in which it is called, whatever writes
\* are pending; it starts no write and leaves the document, the file and the
\* writer as they are; and what it returns is computed from the document in
\* memory as the last mutation issued left it, persisted or not.
C24_ReadsSeeMemory ==
  /\ [][ReadReturns => UNCHANGED <<doc, file, cur, nxt, pend, seq, hist>>]_vars
  /\ [](resolved.kind \in AllReads =>
         /\ seq > 0 => [doc EXCEPT !.shared = {}] = [hist[seq] EXCEPT !.shared = {}]
         /\ resolved.kind = "listTables" =>
              /\ Range(resolved.result) = Range(doc.keys) \ {MetaKey}
              /\ Len(resolved.result) = Cardinality(Range(resolved.result))
         /\ (resolved.status = "ok" /\ resolved.kind = "exists") =>
              resolved.result = <<Lookup(doc, resolved.tab) # "undefined">>
         /\ (resolved.status = "ok" /\ Lookup(doc, resolved.tab) = "array") =>
              LET rows == doc.rows[resolved.tab]
              IN /\ resolved.kind \in {"getAll", "query"} => resolved.result = rows
                 /\ resolved.kind \in {"getById", "findOne"} =>
                      resolved.result = FirstWith(rows, resolved.id)
                 /\ resolved.kind = "find" =>
                      resolved.result = SelectSeq(rows, LAMBDA r : r.id = resolved.id)
                 /\ resolved.kind = "count" => resolved.result = <<Len(rows)>>)

\* getAll on a handle returns the record added by an add whose write is
\* still in progress, the file holding what the open left in it.
C24_Witness ==
  /\ mode = "multi"
  /\ resolved.kind = "getAll"
  /\ resolved.status = "ok"
  /\ resolved.result = <<[id |-> 1, name |-> "B"]>>
  /\ seq = 1
  /\ cur.busy
  /\ ~file.found /\ file.seq = 0
  /\ Len(pend) = 1

\* The store as it was opened: nothing has been issued on it yet.
AsOpened == seq = 0
GivenObject == kept.given[1]

\* On an existing file the document is exactly what the file holds, whatever
\* the defaults; the multi-table defaults are the initial tables and a
\* _metadata entry that lists their names.
OpenedFromFileOrTables ==
  /\ (AsOpened /\ file.found) =>
       /\ Serialize(doc) = file.data
       /\ \A k \in Keys : ~Own(doc, k) => doc.rows[k] = <<>>
  /\ (AsOpened /\ ~file.found /\ mode = "multi") =>
       /\ doc.keys = Append(GivenObject.keys, MetaKey)
       /\ \A k \in Range(GivenObject.keys) : doc.rows[k] = GivenObject.rows[k]
       /\ Lookup(doc, MetaKey) = "object"
       /\ doc.tables = GivenObject.keys

\* C25 (as stated): ... and where no file exists a single-collection store
\* starts with the collection bound to the empty sequence, together with every
\* default field the caller supplied.
C25_OpenCreatesEmptyCollection ==
  /\ OpenedFromFileOrTables
  /\ (AsOpened /\ ~file.found /\ mode = "single") =>
       /\ Own(doc, Coll)
       /\ doc.rows[Coll] = <<>>
       /\ \A k \in Range(GivenObject.keys) \ {Coll} :
            Own(doc, k) /\ doc.rows[k] = GivenObject.rows[k]

\* C25 (amended): ... and where no file exists a single-collection store
\* starts with every default field the caller supplied and the collection
\* key, bound to the empty sequence unless the defaults bind the collection
\* themselves, in which case it is bound to the records they give.
C25_OpenTakesFileOrDefaults ==
  /\ OpenedFromFileOrTables
  /\ (AsOpened /\ ~file.found /\ mode = "single") =>
       /\ Range(doc.keys) = Range(GivenObject.keys) \cup {Coll}
       /\ Len(doc.keys) = Cardinality(Range(doc.keys))
       /\ doc.rows[Coll] = IF Own(GivenObject, Coll) THEN GivenObject.rows[Coll] ELSE <<>>
       /\ \A k \in Range(GivenObject.keys) \ {Coll} : doc.rows[k] = GivenObject.rows[k]

\* A single-collection store opened where no file exists, with defaults that
\* bind the collection to one record and carry another field.
C25_Witness ==
  /\ AsOpened /\ ~file.found /\ mode = "single"
  /\ GivenObject.keys = <<"toString", Coll>>
  /\ doc.keys = <<Coll, "toString">>
  /\ doc.rows[Coll] = <<[id |-> 1, name |-> "A"]>>
  /\ resolved.kind = "count" /\ resolved.result = <<1>>

\* A step in which a read called on the handle kept returns.
ReadOnKept ==
  /\ mode = "multi" /\ kept.handle # <<>>
  /\ resolved' # resolved
  /\ resolved'.kind \in ReadKinds

\* A step in which add, update, remove or clear called on the handle kept
\* is accepted and runs its mutator.
IssuedOnKept ==
  /\ mode = "multi" /\ kept.handle # <<>>
  /\ Issues
  /\ Issued.kind \in MutKinds

\* A step in which add, update, remove or clear called on the handle kept
\* throws before anything is written.
RejectedOnKept ==
  /\ mode = "multi" /\ kept.handle # <<>>
  /\ resolved' # resolved
  /\ resolved'.kind \in MutKinds /\ resolved'.seq = 0

\* C26: table(name) can be called whatever the document holds under name,
\* and changes nothing; no operation changes the handle; a read on a handle
\* obtained earlier returns, and fails, as the same read on a handle
\* obtained in that moment does, and reports a missing table exactly when
\* the name is bound to nothing now; add, update, remove and clear on it are
\* accepted exactly when the name is bound now, and what they do to the
\* table is what they do to the array bound to the name now.
C26_HandleIsStateless ==
  /\ [](\A n \in Names :
          (mode = "multi" /\ CallerRuns /\ kept.handle = <<>>) => ENABLED ObtainTable(n))
  /\ [][(kept.handle = <<>> /\ kept'.handle # <<>>)
          => (kept'.handle = <<Table(doc, kept'.handle[1].name)>>
              /\ UNCHANGED <<doc, file, cur, nxt, pend, seq, hist, resolved>>)]_vars
  /\ [][kept.handle # <<>> => kept'.handle = kept.handle]_vars
  /\ [][ReadOnKept =>
          LET fresh == Table(doc, kept.handle[1].name)
          IN /\ resolved'.tab = fresh.name
             /\ resolved'.status = ReadOn(fresh, doc, resolved'.kind, resolved'.id).status
             /\ resolved'.result = ReadOn(fresh, doc, resolved'.kind, resolved'.id).result
             /\ resolved'.kind # "exists" =>
                  (resolved'.status = "absent" <=> Lookup(doc, fresh.name) = "undefined")
             /\ resolved'.kind = "exists" =>
                  resolved'.result = <<Lookup(doc, fresh.name) # "undefined">>]_vars
  /\ [][IssuedOnKept =>
          LET n == Table(doc, kept.handle[1].name).name
              old == doc.rows[n]
              new == doc'.rows[n]
          IN /\ Issued.tab = n
             /\ Lookup(doc, n) # "undefined"
             /\ Issued.kind = "add" => new = Append(old, Issued.item)
             /\ Issued.kind = "update" => UpdatesFirst(old, new, Issued.id, Issued.p)
             /\ Issued.kind = "remove" => RemovesFirst(old, new, Issued.id)
             /\ Issued.kind = "clear" => (new = <<>> /\ Own(doc', n))]_vars
  /\ [][RejectedOnKept =>
          /\ resolved'.tab = kept.handle[1].name
          /\ doc' = doc
          /\ resolved'.status = "absent" <=> Lookup(doc, resolved'.tab) = "undefined"]_vars

\* A handle for "users" obtained on a store that was opened with two
\* records in that table (the file still holds them); the table is then
\* dropped and created again with one record, and getAll on the handle
\* returns that one record.
C26_Witness ==
  /\ kept.handle = <<Table(doc, "users")>>
  /\ kept.since = 0
  /\ file.seq = 0 /\ ~file.found
  /\ Len(Parse(file.data).rows["users"]) = 2
  /\ seq = 2
  /\ Len(pend) = 2
  /\ pend[1].kind = "dropTable" /\ pend[1].tab = "users" /\ pend[1].own
  /\ pend[2].kind = "createTable" /\ pend[2].tab = "users" /\ ~pend[2].own
  /\ resolved.kind = "getAll" /\ resolved.tab = "users"
  /\ resolved.status = "ok"
  /\ resolved.result = <<[id |-> 1, name |-> "A"]>>
  /\ doc.rows["users"] = resolved.result

\* The array returned by getAll is the one bound to the table it was read from.
ViewIsTable == InData(kept.view[1].tab) \in Group(doc, InView)

\* An operation of the given kinds is issued on the table whose array,
\* returned by getAll earlier, is still the one bound to the table.
IssuedOnView(kinds) ==
  /\ kept.view # <<>>
  /\ ViewIsTable
  /\ Issues
  /\ Issued.kind \in kinds
  /\ Issued.tab = kept.view[1].tab

\* C27 (as stated): after an add, update, remove or clear on the table, the
\* array returned by getAll before it holds the table's current records.
C27_ViewFollowsEveryMutation ==
  [][IssuedOnView(MutKinds) => kept'.view[1].rows = doc'.rows[kept.view[1].tab]]_vars

\* C27 (amended): the array returned by getAll is the table's own array:
\* after a later add, update or remove on the table it still holds the
\* table's current records; clear binds a new empty array to the table, and
\* the array returned before keeps the records it had.
C27_ViewFollowsInPlaceMutation ==
  /\ [][IssuedOnView({"add", "update", "remove"}) =>
          /\ ViewIsTable'
          /\ kept'.view[1].rows = doc'.rows[kept.view[1].tab]]_vars
  /\ [][IssuedOnView({"clear"}) =>
          /\ kept'.view[1].rows = kept.view[1].rows
          /\ doc'.rows[kept.view[1].tab] = <<>>]_vars
  /\ []((kept.view # <<>> /\ ViewIsTable) =>
          /\ Lookup(doc, kept.view[1].tab) = "array"
          /\ kept.view[1].rows = doc.rows[kept.view[1].tab])

\* getAll returned an array of one record, the record was updated and then
\* the collection cleared: the array still holds the updated record.
C27_Witness ==
  /\ kept.view # <<>>
  /\ kept.view[1].rows = <<[id |-> 1, name |-> "B"]>>
  /\ doc.rows[kept.view[1].tab] = <<>>
  /\ seq = 2
  /\ pend[Len(pend)].kind = "clear"
  /\ hist[1].rows[kept.view[1].tab] = <<[id |-> 1, name |-> "B"]>>

\* How often x occurs in the sequence q.
Occurrences(q, x) == Cardinality({j \in DOMAIN q : q[j] = x})

\* C28: createTable(x, records) on a name that is a table already is
\* accepted like any other: the table then holds exactly the records given
\* (none when they are left out), the keys of the document and their order
\* are as before, x is listed once in _metadata.tables, and the promise
\* resolves unless the write fails.
C28_CreateTableReplaces ==
  /\ [][(Issues /\ Issued.kind = "createTable" /\ Issued.own) =>
          /\ doc'.rows[Issued.tab] = Issued.init
          /\ doc'.keys = doc.keys
          /\ Occurrences(doc'.keys, Issued.tab) = 1
          /\ Lookup(doc, MetaKey) = "object" => Occurrences(doc'.tables, Issued.tab) = 1
          /\ \A k \in Keys \ {Issued.tab} : doc'.rows[k] = doc.rows[k]]_vars
  /\ []((Settled /\ resolved.kind = "createTable" /\ resolved.w = "done") =>
          resolved.status = "ok")

\* createTable('users') with no records has resolved on a store whose table
\* users held records before it.
C28_Witness ==
  /\ Settled /\ Alone
  /\ resolved.kind = "createTable" /\ resolved.own /\ resolved.status = "ok"
  /\ resolved.tab = "users" /\ resolved.init = <<>>
  /\ resolved.seq = 2
  /\ hist[1].rows["users"] # <<>>
  /\ doc.rows["users"] = <<>>
  /\ doc.tables = <<"users">>

\* C29: an add, update, remove or clear issued on a handle while its table
\* was present settles without any error about the table, whatever is
\* issued before it settles, dropTable included: it resolves, or it rejects
\* with the error of its write.
C29_NoTableErrorOnceIssued ==
  (Settled /\ mode = "multi" /\ resolved.kind \in MutKinds /\ resolved.own)
    => resolved.status \in {"ok", "ioerror"}

\* C30: every call of chunk, whatever the array and whatever integer the
\* size, zero and negative included, returns.
C30_ChunkTerminates == <>(util.pc = "done")

====
